---- MODULE Spec2Model ----
(***************************************************************************)
(* Model of the two command line tools of clinical-matrix-analysis:        *)
(*   extract-clinical-data.py    (BRCAMatrixExtractor and its main)        *)
(*   subtype-stats-calculator.py (TSVReceptorAnalyzer and its main)        *)
(*                                                                         *)
(* Text is a sequence of one-character strings, so that upper(), strip()   *)
(* and the substring test `x in value` are computed as Python computes     *)
(* them.  A table cell is a record [k, s, n]: k is the kind of the value   *)
(* pandas holds ("nan", "str", "int", "float"), s its text when it is a    *)
(* str, n its magnitude when it is a number.                               *)
(***************************************************************************)
EXTENDS Integers, Sequences, FiniteSets, TLC

VARIABLES
    pc,                \* position of the running program
    exit_code,         \* NoExit while running, then the process exit status
    std_in,            \* argument of a standardize_receptor_status call
    std_out,           \* its return value
    args,              \* the parsed command line of the extractor
    matrix_file,       \* the clinical matrix file named by --input
    clinical_data,     \* BRCAMatrixExtractor.clinical_data
    filtered_clinical, \* BRCAMatrixExtractor.filtered_clinical
    user_columns,      \* main's user_columns
    extracted_data,    \* BRCAMatrixExtractor.extracted_data
    out_file,          \* the file named by --output
    calls,             \* the methods main has called, in order
    a_args,            \* the parsed command line of the analyzer
    extract_file,      \* the extract named by the analyzer's --input
    data,              \* TSVReceptorAnalyzer.data
    valid_columns,     \* the analyzer main's valid_columns
    overall_report,    \* the overall pattern distribution that was printed
    analysis_results,  \* TSVReceptorAnalyzer.analysis_results
    summary_written,   \* the markdown summary of --output exists
    detailed_written,  \* the detailed TSV of --detailed exists
    detailed_rows      \* the data rows of the detailed TSV

vars == <<pc, exit_code, std_in, std_out, args, matrix_file, clinical_data,
          filtered_clinical, user_columns, extracted_data, out_file, calls,
          a_args, extract_file, data, valid_columns, overall_report,
          analysis_results, summary_written, detailed_written, detailed_rows>>

avars == <<a_args, extract_file, data, valid_columns, overall_report,
           analysis_results, summary_written, detailed_written, detailed_rows,
           calls>>

xvars == <<args, matrix_file, clinical_data, filtered_clinical, user_columns,
           extracted_data, out_file>>

\* the analyzer's variables other than calls
adata == <<a_args, extract_file, data, valid_columns, overall_report,
           analysis_results, summary_written, detailed_written, detailed_rows>>

NoExit == -1

----------------------------------------------------------------------------
(* Bounds of the model *)

MaxTokens == 2         \* raw status texts are built from at most this many tokens
MaxNum == 2            \* numeric cells range over 0..MaxNum
MaxRows == 2           \* rows of the clinical matrix
MaxReq == 1            \* length of the freely chosen --columns lists
MaxExtractRows == 2    \* rows of the extract the analyzer reads

----------------------------------------------------------------------------
(* Text *)

LowerLetters ==
    <<"a","b","c","d","e","f","g","h","i","j","k","l","m",
      "n","o","p","q","r","s","t","u","v","w","x","y","z">>

UpperLetters ==
    <<"A","B","C","D","E","F","G","H","I","J","K","L","M",
      "N","O","P","Q","R","S","T","U","V","W","X","Y","Z">>

Whitespace == {" ", "\t"}

UpperChar(c) ==
    IF \E i \in 1..26 : LowerLetters[i] = c
    THEN UpperLetters[CHOOSE i \in 1..26 : LowerLetters[i] = c]
    ELSE c

\* str.upper()
str_upper(s) == [i \in 1..Len(s) |-> UpperChar(s[i])]

\* str.strip(): drops leading and trailing whitespace
str_strip(s) ==
    LET keep == {i \in 1..Len(s) : s[i] \notin Whitespace}
    IN  IF keep = {} THEN <<>>
        ELSE LET lo == CHOOSE i \in keep : \A j \in keep : i <= j
                 hi == CHOOSE i \in keep : \A j \in keep : j <= i
             IN  SubSeq(s, lo, hi)

\* the Python test `t in s` on two strings
str_contains(t, s) ==
    \E i \in 0..(Len(s) - Len(t)) : SubSeq(s, i + 1, i + Len(t)) = t

Digits == <<"0","1","2","3","4","5","6","7","8","9">>

RECURSIVE IntToText(_)
\* str() of a non-negative int
IntToText(n) ==
    IF n < 10 THEN <<Digits[n + 1]>>
    ELSE IntToText(n \div 10) \o <<Digits[(n % 10) + 1]>>

----------------------------------------------------------------------------
(* Cell values *)

NaN == [k |-> "nan", s |-> <<>>, n |-> 0]
StrVal(t) == [k |-> "str", s |-> t, n |-> 0]
IntVal(i) == [k |-> "int", s |-> <<>>, n |-> i]
FloatVal(i) == [k |-> "float", s |-> <<>>, n |-> i]

\* pd.isna(value)
pd_isna(v) == v.k = "nan"

\* str(value)
py_str(v) ==
    CASE v.k = "str" -> v.s
      [] v.k = "int" -> IntToText(v.n)
      [] v.k = "float" -> IntToText(v.n) \o <<".", "0">>
      [] OTHER -> <<"n","a","n">>

EMPTY == <<>>
NA == <<"N","A">>
UNKNOWN == <<"U","n","k","n","o","w","n">>
PLUS == <<"+">>
MINUS == <<"-">>

\* the test `value == '' or value == 'NA'` (false for a number)
is_blank_or_NA(v) == v = StrVal(EMPTY) \/ v = StrVal(NA)

----------------------------------------------------------------------------
(* BRCAMatrixExtractor.standardize_receptor_status *)

PositiveIndicators ==
    << <<"P","O","S","I","T","I","V","E">>, <<"P","O","S">>, <<"+">>, <<"1">>,
       <<"Y","E","S">>, <<"T","R","U","E">> >>

NegativeIndicators ==
    << <<"N","E","G","A","T","I","V","E">>, <<"N","E","G">>, <<"-">>, <<"0">>,
       <<"N","O">>, <<"F","A","L","S","E">> >>

\* any(x in value for x in indicators)
any_in(indicators, value) ==
    \E i \in 1..Len(indicators) : str_contains(indicators[i], value)

\* the slip of testing the negative indicators first
standardize_negative_first(value) ==
    IF pd_isna(value) \/ is_blank_or_NA(value)
    THEN UNKNOWN
    ELSE LET text == str_strip(str_upper(py_str(value)))
         IN  IF any_in(NegativeIndicators, text) THEN MINUS
             ELSE IF any_in(PositiveIndicators, text) THEN PLUS
             ELSE text

standardize_receptor_status(value) ==
    IF pd_isna(value) \/ is_blank_or_NA(value)
    THEN UNKNOWN
    ELSE LET text == str_strip(str_upper(py_str(value)))
         IN  IF any_in(PositiveIndicators, text) THEN PLUS
             ELSE IF any_in(NegativeIndicators, text) THEN MINUS
             ELSE text

----------------------------------------------------------------------------
(* Inputs of the standardizer *)

Tokens ==
    { <<"P","o","s","i","t","i","v","e">>, <<"N","e","g","a","t","i","v","e">>,
      <<"p","o","s">>, <<"N","E","G">>, <<"+">>, <<"-">>, <<"1">>, <<"0">>,
      <<"y","e","s">>, <<"N","o">>, <<"T","r","u","e">>, <<"f","a","l","s","e">>,
      UNKNOWN, NA, <<" ">>, <<"E","q","u","i","v","o","c","a","l">> }

RECURSIVE TokenTexts(_)
\* the texts made of at most k tokens
TokenTexts(k) ==
    IF k = 0 THEN {EMPTY}
    ELSE LET shorter == TokenTexts(k - 1)
         IN  shorter \cup {t \o tok : t \in shorter, tok \in Tokens}

RawValues ==
    {NaN} \cup {StrVal(t) : t \in TokenTexts(MaxTokens)}
          \cup {IntVal(i) : i \in 0..MaxNum}
          \cup {FloatVal(i) : i \in 0..MaxNum}

----------------------------------------------------------------------------
(* Tables and files *)

SeqToSet(s) == {s[i] : i \in DOMAIN s}

\* the sequences over S of length at most n
SeqsUpTo(S, n) == UNION {[1..k -> S] : k \in 0..n}

\* d[key] = value on a Python dict
dict_set(d, key, value) ==
    [k \in (DOMAIN d) \cup {key} |-> IF k = key THEN value ELSE d[k]]

\* A tab-separated file: its header line and its rows, each row a function
\* from the header's names to the text of the field.
NoFile == [status |-> "missing", header |-> <<>>, rows |-> <<>>]
UnparsableFile == [status |-> "unparsable", header |-> <<>>, rows |-> <<>>]

\* A pandas DataFrame; None is NoneDF.
NoneDF == [loaded |-> FALSE, columns |-> <<>>, index |-> <<>>, rows |-> <<>>]

\* the default NA markers of pd.read_csv that the modelled texts can spell
NaTexts == {EMPTY, NA, <<"N","a","N">>, <<"n","a","n">>}

IsNumericText(t) ==
    /\ Len(t) > 0
    /\ \A i \in 1..Len(t) : \E d \in 1..10 : Digits[d] = t[i]

DigitValue(c) == (CHOOSE d \in 1..10 : Digits[d] = c) - 1

RECURSIVE TextToInt(_)
TextToInt(t) ==
    IF Len(t) = 0 THEN 0
    ELSE 10 * TextToInt(SubSeq(t, 1, Len(t) - 1)) + DigitValue(t[Len(t)])

\* a decimal text of a whole number, such as "1.0": the decimal texts that
\* str() of a float column writes (FloatVal holds whole numbers only)
IsDecimalText(t) ==
    \E k \in 2..(Len(t) - 1) :
        /\ t[k] = "."
        /\ IsNumericText(SubSeq(t, 1, k - 1))
        /\ \A i \in (k + 1)..Len(t) : t[i] = "0"

\* the whole number a numeric text stands for
TextToNumber(t) ==
    IF IsDecimalText(t)
    THEN TextToInt(SubSeq(t, 1, (CHOOSE k \in 1..Len(t) : t[k] = ".") - 1))
    ELSE TextToInt(t)

\* the dtype pd.read_csv infers for a column from all of its fields
column_dtype(rows, col) ==
    LET present == {i \in 1..Len(rows) : rows[i][col] \notin NaTexts}
    IN  IF \E i \in present : /\ ~IsNumericText(rows[i][col])
                              /\ ~IsDecimalText(rows[i][col])
        THEN "object"
        ELSE IF /\ present = 1..Len(rows)
                /\ \A i \in present : IsNumericText(rows[i][col])
        THEN "int64"
        ELSE "float64"

parse_cell(t, dtype) ==
    IF t \in NaTexts THEN NaN
    ELSE CASE dtype = "int64" -> IntVal(TextToInt(t))
           [] dtype = "float64" -> FloatVal(TextToNumber(t))
           [] OTHER -> StrVal(t)

\* pd.read_csv(file, sep='\t'), with index_col=0 when index_col is TRUE
pd_read_csv(file, index_col) ==
    LET n == Len(file.rows)
        dtypes == [c \in SeqToSet(file.header) |-> column_dtype(file.rows, c)]
        parsed(i, c) == parse_cell(file.rows[i][c], dtypes[c])
        cols == IF index_col THEN Tail(file.header) ELSE file.header
    IN  [loaded |-> TRUE,
         columns |-> cols,
         index |-> [i \in 1..n |->
                      IF index_col THEN parsed(i, Head(file.header))
                      ELSE IntVal(i - 1)],
         rows |-> [i \in 1..n |-> [c \in SeqToSet(cols) |-> parsed(i, c)]]]

\* the text DataFrame.to_csv writes for a value
csv_field(v) == IF pd_isna(v) THEN EMPTY ELSE py_str(v)

\* DataFrame.to_csv(path, sep='\t', index=False)
to_csv(df) ==
    [status |-> "ok",
     header |-> df.columns,
     rows |-> [i \in 1..Len(df.rows) |->
                 [c \in SeqToSet(df.columns) |-> csv_field(df.rows[i][c])]]]

----------------------------------------------------------------------------
(* BRCAMatrixExtractor *)

ER_COL == "ER_Status_nature2012"
PR_COL == "PR_Status_nature2012"
HER2_COL == "HER2_Final_Status_nature2012"

required_ihc_columns == <<ER_COL, PR_COL, HER2_COL>>

MaxUserColumns == 10

\* the slip of an off-by-one limit
too_many_columns_off_by_one(columns) == Len(columns) > MaxUserColumns + 1

\* if len(args.columns) > 10
too_many_columns(columns) == Len(columns) > MaxUserColumns

read_clinical_matrix(file) ==
    IF file.status = "missing" THEN [ok |-> FALSE, data |-> NoneDF]
    ELSE IF file.status = "unparsable" THEN [ok |-> FALSE, data |-> NoneDF]
    ELSE LET df == pd_read_csv(file, TRUE)
             missing_columns ==
                 SelectSeq(required_ihc_columns,
                           LAMBDA col : col \notin SeqToSet(df.columns))
         IN  [ok |-> missing_columns = <<>>, data |-> df]

\* the slip of dropping unknown columns instead of reporting them
validate_user_columns_lenient(df, columns) ==
    LET available_columns == SeqToSet(df.columns)
    IN  [valid_columns |->
             SelectSeq(columns, LAMBDA col : col \in available_columns),
         invalid_columns |-> <<>>]

validate_user_columns(df, columns) ==
    LET available_columns == SeqToSet(df.columns)
    IN  [valid_columns |->
             SelectSeq(columns, LAMBDA col : col \in available_columns),
         invalid_columns |->
             SelectSeq(columns, LAMBDA col : col \notin available_columns)]

\* notna() & (!= '') & (!= 'NA') on one cell
cell_present(v) == ~pd_isna(v) /\ v # StrVal(EMPTY) /\ v # StrVal(NA)

RECURSIVE masked_positions(_, _)
\* the positions 1..n where mask is true, in increasing order
masked_positions(mask, n) ==
    IF n = 0 THEN <<>>
    ELSE masked_positions(mask, n - 1) \o (IF mask[n] THEN <<n>> ELSE <<>>)

\* df[mask].copy()
df_select(df, mask) ==
    LET keep == masked_positions(mask, Len(mask))
    IN  [loaded |-> TRUE,
         columns |-> df.columns,
         index |-> [j \in 1..Len(keep) |-> df.index[keep[j]]],
         rows |-> [j \in 1..Len(keep) |-> df.rows[keep[j]]]]

\* the slip of combining the column masks with | instead of &
ihc_mask_any(df) ==
    [i \in 1..Len(df.rows) |->
        \E k \in 1..Len(required_ihc_columns) :
            cell_present(df.rows[i][required_ihc_columns[k]])]

ihc_mask(df) ==
    [i \in 1..Len(df.rows) |->
        \A k \in 1..Len(required_ihc_columns) :
            cell_present(df.rows[i][required_ihc_columns[k]])]

filter_complete_ihc_samples(df) == df_select(df, ihc_mask(df))

SLASH == <<"/">>

create_receptor_pattern(er, pr, her2) ==
    standardize_receptor_status(er) \o SLASH \o
    standardize_receptor_status(pr) \o SLASH \o
    standardize_receptor_status(her2)

FixedFields ==
    <<"SampleID", "ER_Status", "PR_Status", "HER2_Status", "Receptor_Pattern">>

RECURSIVE add_user_columns_blank(_, _, _, _, _)
\* the slip of leaving a missing value empty instead of writing the placeholder
add_user_columns_blank(row_data, row, columns, ucols, placeholder) ==
    IF ucols = <<>> THEN row_data
    ELSE LET col == Head(ucols)
             value == row[col]
             field ==
                 IF col \in SeqToSet(columns)
                 THEN IF pd_isna(value) \/ is_blank_or_NA(value)
                      THEN StrVal(EMPTY)
                      ELSE StrVal(py_str(value))
                 ELSE StrVal(EMPTY)
         IN  add_user_columns_blank(dict_set(row_data, col, field), row, columns,
                                    Tail(ucols), placeholder)

RECURSIVE add_user_columns(_, _, _, _, _)
\* the loop `for col in user_columns` of extract_data on one row_data dict
add_user_columns(row_data, row, columns, ucols, placeholder) ==
    IF ucols = <<>> THEN row_data
    ELSE LET col == Head(ucols)
             value == row[col]
             field ==
                 IF col \in SeqToSet(columns)
                 THEN IF pd_isna(value) \/ is_blank_or_NA(value)
                      THEN StrVal(placeholder)
                      ELSE StrVal(py_str(value))
                 ELSE StrVal(placeholder)
         IN  add_user_columns(dict_set(row_data, col, field), row, columns,
                              Tail(ucols), placeholder)

\* the row_data dict extract_data builds for row i of the filtered table
extract_row(filtered, i, ucols, placeholder) ==
    LET row == filtered.rows[i]
        er_status == row[ER_COL]
        pr_status == row[PR_COL]
        her2_status == row[HER2_COL]
        row_data ==
            [SampleID |-> filtered.index[i],
             ER_Status |-> StrVal(standardize_receptor_status(er_status)),
             PR_Status |-> StrVal(standardize_receptor_status(pr_status)),
             HER2_Status |-> StrVal(standardize_receptor_status(her2_status)),
             Receptor_Pattern |->
                 StrVal(create_receptor_pattern(er_status, pr_status, her2_status))]
    IN  add_user_columns(row_data, row, filtered.columns, ucols, placeholder)

RECURSIVE dict_keys(_, _)
\* the keys of row_data in insertion order: the columns of pd.DataFrame(results)
dict_keys(keys, ucols) ==
    IF ucols = <<>> THEN keys
    ELSE dict_keys(IF Head(ucols) \in SeqToSet(keys) THEN keys
                   ELSE Append(keys, Head(ucols)),
                   Tail(ucols))

\* .loc[sample_id, col] yields a Series, not a scalar, when the label repeats
index_has_duplicates(df) ==
    \E i, j \in 1..Len(df.index) : i < j /\ df.index[i] = df.index[j]

\* extract_data: raised is TRUE when standardize_receptor_status is handed a
\* Series and `pd.isna(value) or ...` raises ValueError
extract_data(filtered, ucols, placeholder) ==
    IF index_has_duplicates(filtered)
    THEN [raised |-> TRUE, data |-> NoneDF]
    ELSE LET n == Len(filtered.rows)
         IN  [raised |-> FALSE,
              data |-> [loaded |-> TRUE,
                        columns |-> IF n = 0 THEN <<>>
                                    ELSE dict_keys(FixedFields, ucols),
                        index |-> [i \in 1..n |-> IntVal(i - 1)],
                        rows |-> [i \in 1..n |->
                                    extract_row(filtered, i, ucols, placeholder)]]]

\* save_output: to_csv, then the summary that reads the Receptor_Pattern column
save_output(extracted, old_file, writable) ==
    IF ~writable THEN [ok |-> FALSE, file |-> old_file]
    ELSE [ok |-> "Receptor_Pattern" \in SeqToSet(extracted.columns),
          file |-> to_csv(extracted)]

----------------------------------------------------------------------------
(* Inputs of the extractor *)

INDEX_COL == "sampleID"
USER_COL == "Vital_Status_nature2012"
CLASH_COL == "Receptor_Pattern"
ABSENT_COL == "OS_Status"

T_Positive == <<"P","o","s","i","t","i","v","e">>
T_Negative == <<"N","e","g","a","t","i","v","e">>
T_Equivocal == <<"E","q","u","i","v","o","c","a","l">>
T_LIVING == <<"L","I","V","I","N","G">>
T_One == <<"1">>
T_Zero == <<"0">>
T_x == <<"x">>
T_Unknown_pattern == UNKNOWN \o <<"/", "+", "/", "-">>
TILDE == <<"~">>

MatrixRow(er, pr, her2, vital, clash) ==
    [ER_Status_nature2012 |-> er, PR_Status_nature2012 |-> pr,
     HER2_Final_Status_nature2012 |-> her2, Vital_Status_nature2012 |-> vital,
     Receptor_Pattern |-> clash]

RowTemplates ==
    { MatrixRow(T_Positive, T_Positive, T_Negative, T_LIVING, T_Unknown_pattern),
      MatrixRow(T_Negative, T_Negative, T_Negative, EMPTY, T_x),
      MatrixRow(T_Positive, T_Negative, NA, T_LIVING, EMPTY),
      MatrixRow(EMPTY, T_Positive, T_Positive, NA, T_x),
      MatrixRow(T_Negative, EMPTY, T_Positive, T_LIVING, T_x),
      MatrixRow(T_Positive, T_Positive, T_Equivocal, T_One, EMPTY),
      MatrixRow(T_One, T_Zero, T_Zero, T_One, T_One) }

MatrixHeader == <<INDEX_COL, ER_COL, PR_COL, HER2_COL, USER_COL, CLASH_COL>>

\* a matrix without the HER2 column
ShortHeader == <<INDEX_COL, ER_COL, PR_COL, USER_COL>>

SampleId(i) == <<"S">> \o IntToText(i)

\* sample identifiers: all different, or the first two rows sharing one
IdSchemes ==
    { [i \in 1..(MaxRows + 1) |-> SampleId(i)],
      [i \in 1..(MaxRows + 1) |-> SampleId(IF i = 2 THEN 1 ELSE i)] }

MatrixFile(header, templates, ids) ==
    [status |-> "ok",
     header |-> header,
     rows |-> [i \in 1..Len(templates) |->
                 [c \in SeqToSet(header) |->
                     IF c = INDEX_COL THEN ids[i] ELSE templates[i][c]]]]

MatrixFiles ==
    {NoFile, UnparsableFile} \cup
    { MatrixFile(ShortHeader, t, ids) :
        t \in SeqsUpTo(RowTemplates, 1), ids \in IdSchemes } \cup
    { MatrixFile(MatrixHeader, t, ids) :
        t \in SeqsUpTo(RowTemplates, MaxRows), ids \in IdSchemes }

\* the --columns lists: the short ones, some pairs, and lists at the limit
ColumnLists ==
    SeqsUpTo({USER_COL, CLASH_COL, ABSENT_COL}, MaxReq) \cup
    { <<USER_COL, ABSENT_COL>>, <<ABSENT_COL, USER_COL>>,
      <<USER_COL, CLASH_COL>>, <<USER_COL, USER_COL>> } \cup
    { [i \in 1..n |-> USER_COL] : n \in {MaxUserColumns, MaxUserColumns + 1} }

Placeholders == {TILDE, NA}

\* the command lines: --placeholder and the output path are varied on the
\* runs without --list-columns and --search-columns, which exit before them
ExtractorArgs ==
    { a \in [columns : ColumnLists,
             list_columns : BOOLEAN,
             search_columns : {"none", "empty", "term"},
             placeholder : Placeholders,
             output_writable : BOOLEAN] :
        (a.list_columns \/ a.search_columns # "none")
            => (a.placeholder = TILDE /\ a.output_writable
                /\ ~(a.list_columns /\ a.search_columns = "empty")) }

\* the extractor's variables in a specification that does not run it
XIdle ==
    /\ args = [columns |-> <<>>, list_columns |-> FALSE, search_columns |-> "none",
               placeholder |-> TILDE, output_writable |-> TRUE]
    /\ matrix_file = NoFile
    /\ clinical_data = NoneDF
    /\ filtered_clinical = NoneDF
    /\ user_columns = <<>>
    /\ extracted_data = NoneDF
    /\ out_file = NoFile
    /\ calls = <<>>

----------------------------------------------------------------------------
(* Python dicts that are iterated in insertion order: sequences of entries *)

odict_has(d, k) == \E i \in 1..Len(d) : d[i].key = k

odict_get(d, k) == d[CHOOSE i \in 1..Len(d) : d[i].key = k].val

\* d[k] = v: a new key goes last, an old key keeps its place
odict_set(d, k, v) ==
    IF odict_has(d, k)
    THEN [i \in 1..Len(d) |-> IF d[i].key = k THEN [key |-> k, val |-> v] ELSE d[i]]
    ELSE Append(d, [key |-> k, val |-> v])

RECURSIVE SumSeq(_)
SumSeq(s) == IF s = <<>> THEN 0 ELSE Head(s) + SumSeq(Tail(s))

----------------------------------------------------------------------------
(* TSVReceptorAnalyzer *)

receptor_patterns ==
    << <<"+","/","+","/","-">>, <<"+","/","-","/","-">>,
       <<"-","/","-","/","+">>, <<"-","/","-","/","-">> >>

required_cols == FixedFields

\* read_tsv_file: any exception of pd.read_csv is caught and reported
read_tsv_file(file) ==
    IF file.status # "ok" THEN [ok |-> FALSE, data |-> NoneDF]
    ELSE LET df == pd_read_csv(file, FALSE)
             missing_cols ==
                 SelectSeq(required_cols, LAMBDA col : col \notin SeqToSet(df.columns))
         IN  [ok |-> missing_cols = <<>>, data |-> df]

\* the slip of giving up on every column when one is unknown
validate_analysis_columns_strict(df, analysis_columns) ==
    LET available_cols == SeqToSet(df.columns)
    IN  IF \A i \in 1..Len(analysis_columns) : analysis_columns[i] \in available_cols
        THEN analysis_columns
        ELSE <<>>

validate_analysis_columns(df, analysis_columns) ==
    LET available_cols == SeqToSet(df.columns)
    IN  SelectSeq(analysis_columns, LAMBDA col : col \in available_cols)

\* the cells of column col in the rows at the given positions
column_cells(df, positions, col) ==
    [j \in 1..Len(positions) |-> df.rows[positions[j]][col]]

\* Series.dropna()
dropna(cells) == SelectSeq(cells, LAMBDA v : ~pd_isna(v))

count_of(cells, v) == Cardinality({i \in 1..Len(cells) : cells[i] = v})

RECURSIVE distinct_values(_, _)
\* the distinct cells, in order of first appearance
distinct_values(cells, seen) ==
    IF cells = <<>> THEN seen
    ELSE distinct_values(Tail(cells),
                         IF Head(cells) \in SeqToSet(seen) THEN seen
                         ELSE Append(seen, Head(cells)))

RECURSIVE sort_by_count(_, _)
\* stable sort of the distinct values by decreasing count
sort_by_count(values, cells) ==
    IF values = <<>> THEN <<>>
    ELSE LET best == CHOOSE i \in 1..Len(values) :
                        /\ \A j \in 1..Len(values) :
                              count_of(cells, values[j]) <= count_of(cells, values[i])
                        /\ \A j \in 1..(i - 1) :
                              count_of(cells, values[j]) < count_of(cells, values[i])
             rest == [j \in 1..(Len(values) - 1) |->
                         IF j < best THEN values[j] ELSE values[j + 1]]
         IN  <<values[best]>> \o sort_by_count(rest, cells)

\* the slip of listing the distinct values without counting them
value_counts_unique(cells) ==
    LET present == dropna(cells)
        values == distinct_values(present, <<>>)
    IN  [i \in 1..Len(values) |-> [value |-> values[i], count |-> 1]]

\* Series.value_counts(): [value, count] by decreasing count, NaN left out
value_counts(cells) ==
    LET present == dropna(cells)
        values == sort_by_count(distinct_values(present, <<>>), present)
    IN  [i \in 1..Len(values) |->
            [value |-> values[i], count |-> count_of(present, values[i])]]

\* the slip of leaving out the factor 100: the ratio count / denominator
percentage_unscaled(count, denominator) == [num |-> count, den |-> denominator]

\* (count / denominator) * 100, kept as the fraction num/den
percentage(count, denominator) == [num |-> count * 100, den |-> denominator]

ZeroPercentage == [num |-> 0, den |-> 1]

\* the rows of data whose Receptor_Pattern equals pattern
pattern_rows(df, pattern) ==
    LET mask == [i \in 1..Len(df.rows) |->
                    df.rows[i]["Receptor_Pattern"] = StrVal(pattern)]
    IN  masked_positions(mask, Len(mask))

\* the overall distribution analyze_receptor_patterns prints first
overall_distribution(df) ==
    LET pattern_counts ==
            value_counts(column_cells(df, [i \in 1..Len(df.rows) |-> i],
                                      "Receptor_Pattern"))
        get(pattern) ==
            IF \E i \in 1..Len(pattern_counts) :
                   pattern_counts[i].value = StrVal(pattern)
            THEN pattern_counts[CHOOSE i \in 1..Len(pattern_counts) :
                                    pattern_counts[i].value = StrVal(pattern)].count
            ELSE 0
    IN  [printed |-> TRUE,
         patterns |-> [k \in 1..Len(receptor_patterns) |->
                         [pattern |-> receptor_patterns[k],
                          count |-> get(receptor_patterns[k]),
                          percentage |->
                              IF Len(df.rows) > 0
                              THEN percentage(get(receptor_patterns[k]), Len(df.rows))
                              ELSE ZeroPercentage]],
         total_samples |-> SumSeq([i \in 1..Len(pattern_counts) |->
                                     pattern_counts[i].count])]

NoReport == [printed |-> FALSE, patterns |-> <<>>, total_samples |-> 0]

RECURSIVE fill_value_distribution(_, _, _, _)
\* the loop `for value, count in value_counts.items()`
fill_value_distribution(dist, counts, pattern_total, non_empty_count) ==
    IF counts = <<>> THEN dist
    ELSE LET value == Head(counts).value
             count == Head(counts).count
             entry == [count |-> count,
                       percentage_of_pattern_total |-> percentage(count, pattern_total),
                       percentage_of_non_empty |-> percentage(count, non_empty_count)]
         IN  fill_value_distribution(odict_set(dist, py_str(value), entry),
                                     Tail(counts), pattern_total, non_empty_count)

\* the slip of counting the partition's cells without dropna()
pattern_entry_no_dropna(df, col, pattern) ==
    LET pattern_data == pattern_rows(df, pattern)
        pattern_total == Len(pattern_data)
        pattern_col_data == column_cells(df, pattern_data, col)
        non_empty_count == Len(pattern_col_data)
    IN  [total_samples |-> pattern_total,
         value_distribution |->
             IF non_empty_count = 0 THEN <<>>
             ELSE fill_value_distribution(<<>>, value_counts(pattern_col_data),
                                          pattern_total, non_empty_count),
         non_empty_total |-> non_empty_count]

\* the entry analysis_results[col][pattern] of a pattern that has rows
pattern_entry(df, col, pattern) ==
    LET pattern_data == pattern_rows(df, pattern)
        pattern_total == Len(pattern_data)
        pattern_col_data == dropna(column_cells(df, pattern_data, col))
        non_empty_count == Len(pattern_col_data)
    IN  [total_samples |-> pattern_total,
         value_distribution |->
             IF non_empty_count = 0 THEN <<>>
             ELSE fill_value_distribution(<<>>, value_counts(pattern_col_data),
                                          pattern_total, non_empty_count),
         non_empty_total |-> non_empty_count]

RECURSIVE column_results_skip_no_data(_, _, _, _)
\* the slip of creating the entry only after the check non_empty_count == 0
column_results_skip_no_data(results, df, col, patterns) ==
    IF patterns = <<>> THEN results
    ELSE LET pattern == Head(patterns)
         IN  column_results_skip_no_data(
                 IF \/ Len(pattern_rows(df, pattern)) = 0
                    \/ pattern_entry(df, col, pattern).non_empty_total = 0
                 THEN results
                 ELSE odict_set(results, pattern, pattern_entry(df, col, pattern)),
                 df, col, Tail(patterns))

RECURSIVE column_results(_, _, _, _)
\* the loop `for pattern in self.receptor_patterns` for one column
column_results(results, df, col, patterns) ==
    IF patterns = <<>> THEN results
    ELSE LET pattern == Head(patterns)
         IN  column_results(
                 IF Len(pattern_rows(df, pattern)) = 0 THEN results
                 ELSE odict_set(results, pattern, pattern_entry(df, col, pattern)),
                 df, col, Tail(patterns))

RECURSIVE analyze_columns(_, _, _)
\* the loop `for col in analysis_columns`
analyze_columns(results, df, columns) ==
    IF columns = <<>> THEN results
    ELSE analyze_columns(
             odict_set(results, Head(columns),
                       column_results(<<>>, df, Head(columns), receptor_patterns)),
             df, Tail(columns))

analyze_receptor_patterns(df, analysis_columns) ==
    [overall |-> overall_distribution(df),
     analysis_results |-> analyze_columns(<<>>, df, analysis_columns)]

\* generate_summary_report: the text is always printed; the file is written
\* when a path was given, and False is returned when the write fails
generate_summary_report(output) ==
    IF output = "none" THEN [ok |-> TRUE, written |-> FALSE]
    ELSE IF output = "writable" THEN [ok |-> TRUE, written |-> TRUE]
    ELSE [ok |-> FALSE, written |-> FALSE]

T_No_Data == <<"N","o","_","D","a","t","a">>
T_0 == <<"0">>
T_0_0 == <<"0",".","0">>

\* str(value).replace('\t', ' ').replace('\n', ' ').replace('\r', ' ')
clean_value(t) ==
    [i \in 1..Len(t) |-> IF t[i] \in {"\t", "\n", "\r"} THEN " " ELSE t[i]]

\* f"{p:.2f}" of the percentage p = num/den: the nearest hundredth (a tie of
\* the exact value, which needs a denominator of 32 or more, is rounded up)
format_2f(p) ==
    LET h == (2 * 100 * p.num + p.den) \div (2 * p.den)
    IN  IntToText(h \div 100) \o <<".">> \o
        <<Digits[((h \div 10) % 10) + 1], Digits[(h % 10) + 1]>>

\* the lines generate_detailed_statistics_file writes for one pattern of a column
detailed_pattern_lines(col, pattern, pattern_data) ==
    LET total == IntToText(pattern_data.total_samples)
        non_empty == IntToText(pattern_data.non_empty_total)
        dist == pattern_data.value_distribution
    IN  IF dist = <<>>
        THEN << [Column |-> col, IHC_Pattern |-> pattern,
                 Total_Samples_in_Pattern |-> total, Column_Value |-> T_No_Data,
                 Count |-> T_0, Percentage_of_Pattern_Total |-> T_0_0,
                 Percentage_of_Non_Empty |-> T_0_0, Non_Empty_Total |-> non_empty] >>
        ELSE [i \in 1..Len(dist) |->
                [Column |-> col, IHC_Pattern |-> pattern,
                 Total_Samples_in_Pattern |-> total,
                 Column_Value |-> clean_value(dist[i].key),
                 Count |-> IntToText(dist[i].val.count),
                 Percentage_of_Pattern_Total |->
                     format_2f(dist[i].val.percentage_of_pattern_total),
                 Percentage_of_Non_Empty |->
                     format_2f(dist[i].val.percentage_of_non_empty),
                 Non_Empty_Total |-> non_empty]]

RECURSIVE detailed_column_lines(_, _, _)
\* the loop `for pattern in self.receptor_patterns` of the detailed file
detailed_column_lines(col, col_results, patterns) ==
    IF patterns = <<>> THEN <<>>
    ELSE (IF odict_has(col_results, Head(patterns))
          THEN detailed_pattern_lines(col, Head(patterns),
                                      odict_get(col_results, Head(patterns)))
          ELSE <<>>)
         \o detailed_column_lines(col, col_results, Tail(patterns))

RECURSIVE detailed_lines(_)
\* the loop `for col, col_results in self.analysis_results.items()`
detailed_lines(results) ==
    IF results = <<>> THEN <<>>
    ELSE detailed_column_lines(Head(results).key, Head(results).val,
                               receptor_patterns)
         \o detailed_lines(Tail(results))

\* generate_detailed_statistics_file: False when the write fails
generate_detailed_statistics_file(detailed, results) ==
    IF detailed = "writable"
    THEN [ok |-> TRUE, written |-> TRUE, rows |-> detailed_lines(results)]
    ELSE [ok |-> FALSE, written |-> FALSE, rows |-> <<>>]

----------------------------------------------------------------------------
(* Inputs of the analyzer *)

ExtractHeader == FixedFields \o <<USER_COL>>

\* an extract without the Receptor_Pattern column
ShortExtractHeader == <<"SampleID", "ER_Status", "PR_Status", "HER2_Status", USER_COL>>

T_DECEASED == <<"D","E","C","E","A","S","E","D">>

ExtractRow(er, pr, her2, vital) ==
    [ER_Status |-> er, PR_Status |-> pr, HER2_Status |-> her2,
     Receptor_Pattern |-> er \o SLASH \o pr \o SLASH \o her2,
     Vital_Status_nature2012 |-> vital]

ExtractTemplates ==
    { ExtractRow(PLUS, PLUS, MINUS, T_LIVING),
      ExtractRow(PLUS, PLUS, MINUS, T_DECEASED),
      ExtractRow(PLUS, PLUS, MINUS, EMPTY),
      ExtractRow(MINUS, MINUS, MINUS, T_LIVING),
      ExtractRow(MINUS, MINUS, MINUS, TILDE),
      ExtractRow(MINUS, MINUS, PLUS, EMPTY),
      ExtractRow(PLUS, PLUS, PLUS, T_LIVING),
      [ExtractRow(PLUS, MINUS, MINUS, T_LIVING) EXCEPT !.Receptor_Pattern = EMPTY] }

ExtractFile(header, templates) ==
    [status |-> "ok",
     header |-> header,
     rows |-> [i \in 1..Len(templates) |->
                 [c \in SeqToSet(header) |->
                     IF c = "SampleID" THEN SampleId(i) ELSE templates[i][c]]]]

ExtractFiles ==
    {NoFile, UnparsableFile} \cup
    { ExtractFile(ShortExtractHeader, t) : t \in SeqsUpTo(ExtractTemplates, 1) } \cup
    { ExtractFile(ExtractHeader, t) : t \in SeqsUpTo(ExtractTemplates, MaxExtractRows) }

\* --columns of the analyzer; the empty list stands for an absent option
AnalysisLists == SeqsUpTo({USER_COL, ABSENT_COL}, MaxReq + 1)

PathKinds == {"none", "writable", "unwritable"}

\* the command lines: the output paths are varied on the runs without
\* --list-columns, which exits before them
AnalyzerArgs ==
    { a \in [columns : AnalysisLists,
             output : PathKinds,
             detailed : PathKinds,
             list_columns : BOOLEAN] :
        a.list_columns => (a.output = "none" /\ a.detailed = "none") }

\* the analyzer's variables in a specification that does not run it
AIdle ==
    /\ a_args = [columns |-> <<>>, output |-> "none", detailed |-> "none",
                 list_columns |-> FALSE]
    /\ extract_file = NoFile
    /\ data = NoneDF
    /\ valid_columns = <<>>
    /\ overall_report = NoReport
    /\ analysis_results = <<>>
    /\ summary_written = FALSE
    /\ detailed_written = FALSE
    /\ detailed_rows = <<>>

----------------------------------------------------------------------------
(* main of extract-clinical-data.py *)

Exit(code) == pc' = "exit" /\ exit_code' = code

ExtractorInit ==
    /\ pc = "x_read"
    /\ exit_code = NoExit
    /\ std_in = NaN
    /\ std_out = EMPTY
    /\ args \in ExtractorArgs
    /\ matrix_file \in MatrixFiles
    /\ clinical_data = NoneDF
    /\ filtered_clinical = NoneDF
    /\ user_columns = <<>>
    /\ extracted_data = NoneDF
    /\ out_file = NoFile
    /\ calls = <<>>
    /\ AIdle

\* if not extractor.read_clinical_matrix(args.input): sys.exit(1)
extractor_read ==
    /\ pc = "x_read"
    /\ LET r == read_clinical_matrix(matrix_file)
       IN  /\ clinical_data' = r.data
           /\ IF r.ok THEN pc' = "x_list" /\ UNCHANGED exit_code ELSE Exit(1)
    /\ calls' = Append(calls, "read_clinical_matrix")
    /\ UNCHANGED <<std_in, std_out, args, matrix_file, filtered_clinical,
                   user_columns, extracted_data, out_file>>
    /\ UNCHANGED adata

\* --list-columns and --search-columns: list and sys.exit(0)
extractor_list ==
    /\ pc = "x_list"
    /\ IF args.list_columns \/ args.search_columns = "term"
       THEN /\ calls' = Append(calls, "list_available_columns")
            /\ Exit(0)
       ELSE /\ pc' = "x_validate"
            /\ UNCHANGED <<exit_code, calls>>
    /\ UNCHANGED <<std_in, std_out, args, matrix_file, clinical_data,
                   filtered_clinical, user_columns, extracted_data, out_file>>
    /\ UNCHANGED adata

\* the limit on --columns, then validate_user_columns
extractor_validate ==
    /\ pc = "x_validate"
    /\ IF too_many_columns(args.columns)
       THEN Exit(1) /\ UNCHANGED <<user_columns, calls>>
       ELSE IF args.columns # <<>>
       THEN LET v == validate_user_columns(clinical_data, args.columns)
            IN  /\ calls' = Append(calls, "validate_user_columns")
                /\ IF v.invalid_columns # <<>>
                   THEN Exit(1) /\ UNCHANGED user_columns
                   ELSE /\ user_columns' = v.valid_columns
                        /\ pc' = "x_filter"
                        /\ UNCHANGED exit_code
       ELSE /\ user_columns' = <<>>
            /\ pc' = "x_filter"
            /\ UNCHANGED <<exit_code, calls>>
    /\ UNCHANGED <<std_in, std_out, args, matrix_file, clinical_data,
                   filtered_clinical, extracted_data, out_file>>
    /\ UNCHANGED adata

\* if not extractor.filter_complete_ihc_samples(): sys.exit(1)
extractor_filter ==
    /\ pc = "x_filter"
    /\ filtered_clinical' = filter_complete_ihc_samples(clinical_data)
    /\ calls' = Append(calls, "filter_complete_ihc_samples")
    /\ pc' = "x_extract"
    /\ UNCHANGED <<exit_code, std_in, std_out, args, matrix_file, clinical_data,
                   user_columns, extracted_data, out_file>>
    /\ UNCHANGED adata

\* if not extractor.extract_data(user_columns): sys.exit(1)
\* an exception that leaves main ends the process with status 1
extractor_extract ==
    /\ pc = "x_extract"
    /\ LET r == extract_data(filtered_clinical, user_columns, args.placeholder)
       IN  IF r.raised
           THEN Exit(1) /\ UNCHANGED extracted_data
           ELSE /\ extracted_data' = r.data
                /\ pc' = "x_save"
                /\ UNCHANGED exit_code
    /\ calls' = Append(calls, "extract_data")
    /\ UNCHANGED <<std_in, std_out, args, matrix_file, clinical_data,
                   filtered_clinical, user_columns, out_file>>
    /\ UNCHANGED adata

\* if not extractor.save_output(args.output): sys.exit(1); then main returns
extractor_save ==
    /\ pc = "x_save"
    /\ LET r == save_output(extracted_data, out_file, args.output_writable)
       IN  /\ out_file' = r.file
           /\ IF r.ok THEN Exit(0) ELSE Exit(1)
    /\ calls' = Append(calls, "save_output")
    /\ UNCHANGED <<std_in, std_out, args, matrix_file, clinical_data,
                   filtered_clinical, user_columns, extracted_data>>
    /\ UNCHANGED adata

ExtractorNext ==
    \/ extractor_read
    \/ extractor_list
    \/ extractor_validate
    \/ extractor_filter
    \/ extractor_extract
    \/ extractor_save

SpecExtractor == ExtractorInit /\ [][ExtractorNext]_vars

----------------------------------------------------------------------------
(* main of subtype-stats-calculator.py *)

AnalyzerInit ==
    /\ pc = "a_read"
    /\ exit_code = NoExit
    /\ std_in = NaN
    /\ std_out = EMPTY
    /\ XIdle
    /\ a_args \in AnalyzerArgs
    /\ extract_file \in ExtractFiles
    /\ data = NoneDF
    /\ valid_columns = <<>>
    /\ overall_report = NoReport
    /\ analysis_results = <<>>
    /\ summary_written = FALSE
    /\ detailed_written = FALSE
    /\ detailed_rows = <<>>

\* if not analyzer.read_tsv_file(args.input): sys.exit(1)
analyzer_read ==
    /\ pc = "a_read"
    /\ LET r == read_tsv_file(extract_file)
       IN  /\ data' = r.data
           /\ IF r.ok THEN pc' = "a_list" /\ UNCHANGED exit_code ELSE Exit(1)
    /\ calls' = Append(calls, "read_tsv_file")
    /\ UNCHANGED <<a_args, extract_file, valid_columns, overall_report,
                   analysis_results, summary_written, detailed_written,
                   detailed_rows>>
    /\ UNCHANGED <<std_in, std_out, args, matrix_file, clinical_data,
                   filtered_clinical, user_columns, extracted_data, out_file>>

\* if args.list_columns: list the columns and sys.exit(0)
analyzer_list ==
    /\ pc = "a_list"
    /\ IF a_args.list_columns THEN Exit(0)
       ELSE pc' = "a_validate" /\ UNCHANGED exit_code
    /\ UNCHANGED avars
    /\ UNCHANGED <<std_in, std_out>>
    /\ UNCHANGED xvars

\* the check that columns were given, then validate_analysis_columns
analyzer_validate ==
    /\ pc = "a_validate"
    /\ IF a_args.columns = <<>>
       THEN Exit(1) /\ UNCHANGED <<valid_columns, calls>>
       ELSE LET valid == validate_analysis_columns(data, a_args.columns)
            IN  /\ valid_columns' = valid
                /\ calls' = Append(calls, "validate_analysis_columns")
                /\ IF valid = <<>> THEN Exit(1)
                   ELSE pc' = "a_analyze" /\ UNCHANGED exit_code
    /\ UNCHANGED <<a_args, extract_file, data, overall_report, analysis_results,
                   summary_written, detailed_written, detailed_rows>>
    /\ UNCHANGED <<std_in, std_out, args, matrix_file, clinical_data,
                   filtered_clinical, user_columns, extracted_data, out_file>>

\* analyzer.analyze_receptor_patterns(valid_columns)
analyzer_analyze ==
    /\ pc = "a_analyze"
    /\ LET r == analyze_receptor_patterns(data, valid_columns)
       IN  /\ overall_report' = r.overall
           /\ analysis_results' = r.analysis_results
    /\ calls' = Append(calls, "analyze_receptor_patterns")
    /\ pc' = "a_summary"
    /\ UNCHANGED <<exit_code, a_args, extract_file, data, valid_columns,
                   summary_written, detailed_written, detailed_rows>>
    /\ UNCHANGED <<std_in, std_out, args, matrix_file, clinical_data,
                   filtered_clinical, user_columns, extracted_data, out_file>>

\* analyzer.generate_summary_report(args.output): the result is not looked at
analyzer_summary ==
    /\ pc = "a_summary"
    /\ summary_written' = generate_summary_report(a_args.output).written
    /\ calls' = Append(calls, "generate_summary_report")
    /\ pc' = "a_detailed"
    /\ UNCHANGED <<exit_code, a_args, extract_file, data, valid_columns,
                   overall_report, analysis_results, detailed_written,
                   detailed_rows>>
    /\ UNCHANGED <<std_in, std_out, args, matrix_file, clinical_data,
                   filtered_clinical, user_columns, extracted_data, out_file>>

\* if args.detailed: analyzer.generate_detailed_statistics_file(args.detailed);
\* the result is not looked at, and main returns
analyzer_detailed ==
    /\ pc = "a_detailed"
    /\ IF a_args.detailed # "none"
       THEN LET r == generate_detailed_statistics_file(a_args.detailed,
                                                         analysis_results)
            IN  /\ detailed_written' = r.written
                /\ detailed_rows' = r.rows
                /\ calls' = Append(calls, "generate_detailed_statistics_file")
       ELSE UNCHANGED <<detailed_written, detailed_rows, calls>>
    /\ Exit(0)
    /\ UNCHANGED <<a_args, extract_file, data, valid_columns, overall_report,
                   analysis_results, summary_written>>
    /\ UNCHANGED <<std_in, std_out, args, matrix_file, clinical_data,
                   filtered_clinical, user_columns, extracted_data, out_file>>

AnalyzerNext ==
    \/ analyzer_read
    \/ analyzer_list
    \/ analyzer_validate
    \/ analyzer_analyze
    \/ analyzer_summary
    \/ analyzer_detailed

SpecAnalyzer == AnalyzerInit /\ [][AnalyzerNext]_vars

----------------------------------------------------------------------------
(* The two programs in sequence: the analyzer reads the extractor's output *)

\* clinical rows of the pipeline: a text value, a missing value, a row the
\* filter drops, and a numeric value
PipelineTemplates ==
    { MatrixRow(T_Positive, T_Positive, T_Negative, T_LIVING, T_Unknown_pattern),
      MatrixRow(T_Negative, T_Negative, T_Negative, EMPTY, T_x),
      MatrixRow(EMPTY, T_Positive, T_Positive, NA, T_x),
      MatrixRow(T_One, T_Zero, T_Zero, T_One, T_One) }

PipelineMatrixFiles ==
    { MatrixFile(MatrixHeader, t, [i \in 1..(MaxRows + 1) |-> SampleId(i)]) :
        t \in SeqsUpTo(PipelineTemplates, MaxRows) }

\* values of --placeholder: the default, an NA marker, none, and a number
PipelinePlaceholders == {TILDE, NA, EMPTY, T_Zero}

PipelineExtractorArgs ==
    [columns : {<<USER_COL>>, <<USER_COL, CLASH_COL>>},
     list_columns : {FALSE},
     search_columns : {"none"},
     placeholder : PipelinePlaceholders,
     output_writable : {TRUE}]

PipelineAnalyzerArgs ==
    [columns : {<<USER_COL>>, <<USER_COL, CLASH_COL>>},
     output : {"writable"},
     detailed : {"none", "writable"},
     list_columns : {FALSE}]

PipelineInit ==
    /\ pc = "x_read"
    /\ exit_code = NoExit
    /\ std_in = NaN
    /\ std_out = EMPTY
    /\ args \in PipelineExtractorArgs
    /\ matrix_file \in PipelineMatrixFiles
    /\ clinical_data = NoneDF
    /\ filtered_clinical = NoneDF
    /\ user_columns = <<>>
    /\ extracted_data = NoneDF
    /\ out_file = NoFile
    /\ calls = <<>>
    /\ AIdle

\* the analyzer is started on the file the extractor has written
pipeline_handoff ==
    /\ pc = "exit"
    /\ exit_code = 0
    /\ out_file.status = "ok"
    /\ extract_file = NoFile
    /\ \E a \in PipelineAnalyzerArgs : a_args' = a
    /\ extract_file' = out_file
    /\ pc' = "a_read"
    /\ exit_code' = NoExit
    /\ UNCHANGED <<data, valid_columns, overall_report, analysis_results,
                   summary_written, detailed_written, detailed_rows, calls>>
    /\ UNCHANGED <<std_in, std_out>>
    /\ UNCHANGED xvars

PipelineNext ==
    \/ ExtractorNext
    \/ pipeline_handoff
    \/ AnalyzerNext

SpecPipeline == PipelineInit /\ [][PipelineNext]_vars

----------------------------------------------------------------------------
(* Specification of a single standardize_receptor_status call *)

StdInit ==
    /\ pc = "std_call"
    /\ exit_code = NoExit
    /\ std_in \in RawValues
    /\ std_out = EMPTY
    /\ XIdle
    /\ AIdle

StandardizeCall ==
    /\ pc = "std_call"
    /\ std_out' = standardize_receptor_status(std_in)
    /\ pc' = "std_done"
    /\ UNCHANGED <<exit_code, std_in, calls>>
    /\ UNCHANGED xvars
    /\ UNCHANGED adata

StdNext == StandardizeCall

SpecStd == StdInit /\ [][StdNext]_vars

----------------------------------------------------------------------------
(* Properties of standardize_receptor_status (SpecStd) *)

StandardizedValues == {PLUS, MINUS, UNKNOWN}

\* C1: standardizing an already standardized value ('+', '-', 'Unknown')
\* returns that value unchanged.
C1_StandardizeIdempotent ==
    (pc = "std_done" /\ std_in \in {StrVal(t) : t \in StandardizedValues})
        => std_out = std_in.s

PositiveSet ==
    { <<"P","O","S","I","T","I","V","E">>, <<"P","O","S">>, <<"+">>, <<"1">>,
      <<"Y","E","S">>, <<"T","R","U","E">> }

NegativeSet ==
    { <<"N","E","G","A","T","I","V","E">>, <<"N","E","G">>, <<"-">>, <<"0">>,
      <<"N","O">>, <<"F","A","L","S","E">> }

StdMissing == std_in.k = "nan" \/ (std_in.k = "str" /\ std_in.s \in {EMPTY, NA})
StdText == str_strip(str_upper(py_str(std_in)))
StdHasPositive == \E ind \in PositiveSet : str_contains(ind, StdText)
StdHasNegative == \E ind \in NegativeSet : str_contains(ind, StdText)

\* C3: a raw value maps to 'Unknown' when it is null, empty or 'NA'; otherwise
\* to '+' when its uppercased, trimmed text contains a positive indicator;
\* otherwise to '-' when it contains a negative indicator; otherwise to the
\* uppercased, trimmed text.  A value with indicators of both sets maps to '+'.
C3_StandardizeMapping ==
    pc = "std_done" =>
        /\ StdMissing => std_out = UNKNOWN
        /\ (~StdMissing /\ StdHasPositive) => std_out = PLUS
        /\ (~StdMissing /\ ~StdHasPositive /\ StdHasNegative) => std_out = MINUS
        /\ (~StdMissing /\ ~StdHasPositive /\ ~StdHasNegative) => std_out = StdText

\* a value with '1' and '0' in it has been standardized to '+'
C3_Witness ==
    /\ pc = "std_done"
    /\ std_in.k = "str"
    /\ str_contains(<<"1">>, std_in.s)
    /\ str_contains(<<"0">>, std_in.s)
    /\ std_out = PLUS

----------------------------------------------------------------------------
(* Properties of the extractor run (SpecExtractor) *)

Called(name) == \E i \in 1..Len(calls) : calls[i] = name

\* the j-th smallest element of a set of numbers
Nth(S, j) == CHOOSE x \in S : Cardinality({y \in S : y < x}) = j - 1

\* the source rows whose three IHC cells are non-null, non-empty and not 'NA'
CompleteRows ==
    {i \in 1..Len(clinical_data.rows) :
        \A c \in {ER_COL, PR_COL, HER2_COL} :
            LET v == clinical_data.rows[i][c]
            IN  v.k # "nan" /\ ~(v.k = "str" /\ v.s \in {EMPTY, NA})}

\* C2: after filter_complete_ihc_samples and extract_data the extract has
\* exactly one row for each source row whose three IHC columns are all
\* non-null, non-empty and not 'NA', none for any other row, in source order.
C2_ExtractIsCompleteRowsInOrder ==
    extracted_data.loaded =>
        /\ Len(extracted_data.rows) = Cardinality(CompleteRows)
        /\ \A j \in 1..Len(extracted_data.rows) :
              extracted_data.rows[j]["SampleID"] =
                  clinical_data.index[Nth(CompleteRows, j)]

\* an extract that kept a later source row and dropped an earlier one
C2_Witness ==
    /\ extracted_data.loaded
    /\ Len(extracted_data.rows) >= 1
    /\ 1 \notin CompleteRows
    /\ 2 \in CompleteRows

\* C4: in every row of the extract, for every accepted list of user columns,
\* Receptor_Pattern is ER_Status/PR_Status/HER2_Status, and each of the three
\* is the standardized value of the row's raw IHC column.
C4_PatternJoinsStandardizedStatuses ==
    extracted_data.loaded =>
        \A j \in 1..Len(extracted_data.rows) :
            LET row == extracted_data.rows[j]
                raw == filtered_clinical.rows[j]
            IN  /\ row["ER_Status"] = StrVal(standardize_receptor_status(raw[ER_COL]))
                /\ row["PR_Status"] = StrVal(standardize_receptor_status(raw[PR_COL]))
                /\ row["HER2_Status"] = StrVal(standardize_receptor_status(raw[HER2_COL]))
                /\ row["Receptor_Pattern"] =
                       StrVal(row["ER_Status"].s \o <<"/">> \o row["PR_Status"].s
                              \o <<"/">> \o row["HER2_Status"].s)

NoListing == ~args.list_columns /\ args.search_columns # "term"

\* C8: with more than 10 names after --columns the run ends with exit code 1
\* before any column data is read, whatever the other flags are.
C8_TooManyColumnsAlwaysExit1 ==
    (pc = "exit" /\ Len(args.columns) > 10) =>
        /\ exit_code = 1
        /\ \A i \in 1..Len(calls) : calls[i] = "read_clinical_matrix"

\* C8 as amended: with more than 10 names after --columns, and neither
\* --list-columns nor a non-empty --search-columns, the run ends with exit
\* code 1 and has called nothing but read_clinical_matrix.
C8_TooManyColumnsExit1 ==
    (Len(args.columns) > 10 /\ NoListing) =>
        /\ pc \in {"x_read", "x_list", "x_validate", "exit"}
        /\ pc = "exit" => exit_code = 1
        /\ \A i \in 1..Len(calls) : calls[i] = "read_clinical_matrix"

\* a run with 11 names that loaded the matrix and stopped at the limit
C8_Witness ==
    /\ pc = "exit"
    /\ exit_code = 1
    /\ Len(args.columns) = 11
    /\ NoListing
    /\ clinical_data.loaded
    /\ \A c \in {ER_COL, PR_COL, HER2_COL} : c \in SeqToSet(clinical_data.columns)

SomeRequestedColumnUnknown ==
    \E i \in 1..Len(args.columns) :
        args.columns[i] \notin SeqToSet(clinical_data.columns)

\* C9: in a run that reaches column validation with a requested column that
\* is not in the loaded table, the run exits with code 1 without filtering,
\* extracting or writing: no output file exists.
C9_InvalidColumnAborts ==
    (Called("validate_user_columns") /\ SomeRequestedColumnUnknown) =>
        /\ pc = "exit"
        /\ exit_code = 1
        /\ ~Called("filter_complete_ihc_samples")
        /\ ~Called("extract_data")
        /\ ~Called("save_output")
        /\ filtered_clinical = NoneDF
        /\ extracted_data = NoneDF
        /\ out_file = NoFile

\* a run aborted for one unknown column although another one was valid
C9_Witness ==
    /\ Called("validate_user_columns")
    /\ SomeRequestedColumnUnknown
    /\ \E i \in 1..Len(args.columns) :
          args.columns[i] \in SeqToSet(clinical_data.columns)
    /\ pc = "exit"
    /\ exit_code = 1

----------------------------------------------------------------------------
(* Properties of the analyzer run (SpecAnalyzer) *)

ReportedSum ==
    SumSeq([k \in 1..Len(overall_report.patterns) |-> overall_report.patterns[k].count])

FixedPatternSet ==
    { <<"+","/","+","/","-">>, <<"+","/","-","/","-">>,
      <<"-","/","-","/","+">>, <<"-","/","-","/","-">> }

RowsWithFixedPattern ==
    {i \in 1..Len(data.rows) :
        \E p \in FixedPatternSet : data.rows[i]["Receptor_Pattern"] = StrVal(p)}

\* C5: in the overall pattern distribution the sample counts of the reported
\* patterns add up to the number of rows of the loaded extract.
C5_ReportedCountsSumToRowCount ==
    overall_report.printed => ReportedSum = Len(data.rows)

\* C5 as amended: the sample counts of the reported patterns add up to the
\* number of rows whose Receptor_Pattern is one of the four fixed patterns,
\* which is at most the number of rows of the loaded extract; the printed
\* Total is the number of rows whose Receptor_Pattern is not missing.
C5_ReportedCountsSumToFixedPatternRows ==
    overall_report.printed =>
        /\ ReportedSum = Cardinality(RowsWithFixedPattern)
        /\ ReportedSum <= Len(data.rows)
        /\ overall_report.total_samples =
               Cardinality({i \in 1..Len(data.rows) :
                               data.rows[i]["Receptor_Pattern"].k # "nan"})

\* a report over an extract with two rows of a fixed pattern
C5_Witness ==
    /\ overall_report.printed
    /\ \E k \in 1..Len(overall_report.patterns) : overall_report.patterns[k].count = 2

\* C6: for every analyzed column and every pattern in the result, the counts
\* of value_distribution add up to non_empty_total, and non_empty_total is at
\* most total_samples.
C6_DistributionCountsSumToNonEmpty ==
    \A c \in 1..Len(analysis_results) :
        \A p \in 1..Len(analysis_results[c].val) :
            LET entry == analysis_results[c].val[p].val
                dist == entry.value_distribution
            IN  /\ SumSeq([i \in 1..Len(dist) |-> dist[i].val.count])
                       = entry.non_empty_total
                /\ entry.non_empty_total <= entry.total_samples

\* a pattern whose partition has a value and a missing cell in the column
C6_Witness ==
    \E c \in 1..Len(analysis_results) :
        \E p \in 1..Len(analysis_results[c].val) :
            LET entry == analysis_results[c].val[p].val
            IN  /\ entry.non_empty_total >= 1
                /\ entry.non_empty_total < entry.total_samples

\* C7: when the analyzer exits with code 0 without --list-columns, every
\* requested output (--output, --detailed) was written; a failed write makes
\* the run exit non-zero.
C7_ExitZeroMeansOutputsWritten ==
    (pc = "exit" /\ exit_code = 0 /\ ~a_args.list_columns) =>
        /\ a_args.output # "none" => summary_written
        /\ a_args.detailed # "none" => detailed_written

ExistingRequested ==
    {i \in 1..Len(a_args.columns) : a_args.columns[i] \in SeqToSet(data.columns)}

\* C10: an analysis column that is not in the loaded extract is dropped; the
\* analysis runs on exactly the requested columns that exist, in the requested
\* order, when there is one, and the run exits with code 1 only when there is
\* none.
C10_UnknownColumnsDropped ==
    Called("validate_analysis_columns") =>
        /\ Len(valid_columns) = Cardinality(ExistingRequested)
        /\ \A j \in 1..Len(valid_columns) :
              valid_columns[j] = a_args.columns[Nth(ExistingRequested, j)]
        /\ ExistingRequested = {} =>
              /\ pc = "exit"
              /\ exit_code = 1
              /\ ~Called("analyze_receptor_patterns")
        /\ ExistingRequested # {} =>
              /\ exit_code # 1
              /\ pc = "exit" => Called("analyze_receptor_patterns")
              /\ Called("analyze_receptor_patterns") =>
                    /\ {analysis_results[c].key : c \in 1..Len(analysis_results)}
                           = {a_args.columns[i] : i \in ExistingRequested}
                    /\ \A c, d \in 1..Len(analysis_results) :
                          c < d =>
                              \E i \in ExistingRequested :
                                  /\ a_args.columns[i] = analysis_results[c].key
                                  /\ \A j \in ExistingRequested :
                                        a_args.columns[j] = analysis_results[d].key
                                            => i < j

\* a finished run that dropped an unknown column and analyzed a known one
C10_Witness ==
    /\ pc = "exit"
    /\ exit_code = 0
    /\ Called("analyze_receptor_patterns")
    /\ ExistingRequested # {}
    /\ ExistingRequested # 1..Len(a_args.columns)

----------------------------------------------------------------------------
(* Properties of the detailed statistics file (SpecAnalyzer) *)

\* the lines of the detailed file for one column and pattern
LinesOf(col, pattern) ==
    {i \in 1..Len(detailed_rows) :
        detailed_rows[i].Column = col /\ detailed_rows[i].IHC_Pattern = pattern}

\* the (column, pattern) entries with rows but no non-missing value
NoDataEntries ==
    {<<c, p>> \in (1..Len(analysis_results)) \X (1..Len(receptor_patterns)) :
        /\ p <= Len(analysis_results[c].val)
        /\ analysis_results[c].val[p].val.total_samples > 0
        /\ analysis_results[c].val[p].val.non_empty_total = 0}

\* C11: for every analyzed column and pattern whose partition has rows but no
\* non-missing value, the detailed TSV has exactly one row, with Column_Value
\* 'No_Data', Count 0 and both percentages written as '0.00'.
C11_NoDataRowHasTwoDecimals ==
    detailed_written =>
        \A e \in NoDataEntries :
            LET col == analysis_results[e[1]].key
                pattern == analysis_results[e[1]].val[e[2]].key
            IN  /\ Cardinality(LinesOf(col, pattern)) = 1
                /\ \A i \in LinesOf(col, pattern) :
                      /\ detailed_rows[i].Column_Value = <<"N","o","_","D","a","t","a">>
                      /\ detailed_rows[i].Count = <<"0">>
                      /\ detailed_rows[i].Percentage_of_Pattern_Total
                             = <<"0",".","0","0">>
                      /\ detailed_rows[i].Percentage_of_Non_Empty
                             = <<"0",".","0","0">>

----------------------------------------------------------------------------
(* Properties of the percentages (SpecAnalyzer) *)

\* p is the value 100 * count / denominator, or 0 when the denominator is 0;
\* its divisor is never 0 and it lies in 0..100
PercentageIs(p, count, denominator) ==
    /\ p.den > 0
    /\ IF denominator = 0 THEN p.num = 0
       ELSE p.num * denominator = 100 * count * p.den
    /\ 0 <= p.num
    /\ p.num <= 100 * p.den

\* the value entries of analysis_results, each with its pattern entry
ValueEntries ==
    {e \in (1..Len(analysis_results)) \X (1..Len(receptor_patterns)) \X (1..MaxExtractRows) :
        /\ e[2] <= Len(analysis_results[e[1]].val)
        /\ e[3] <= Len(analysis_results[e[1]].val[e[2]].val.value_distribution)}

\* C12: every percentage the analyzer computes is 100 * count / denominator,
\* is 0 when the denominator is 0 (nothing is divided by 0) and lies between 0
\* and 100: the overall percentage of total rows, percentage_of_pattern_total
\* and percentage_of_non_empty.
C12_PercentagesAreBoundedRatios ==
    /\ \A i \in 1..Len(overall_report.patterns) :
          PercentageIs(overall_report.patterns[i].percentage,
                       overall_report.patterns[i].count, Len(data.rows))
    /\ \A e \in ValueEntries :
          LET pattern_data == analysis_results[e[1]].val[e[2]].val
              value_data == pattern_data.value_distribution[e[3]].val
          IN  /\ PercentageIs(value_data.percentage_of_pattern_total,
                              value_data.count, pattern_data.total_samples)
              /\ PercentageIs(value_data.percentage_of_non_empty,
                              value_data.count, pattern_data.non_empty_total)

\* a value that is half of its pattern's rows is reported, and the overall
\* distribution of a table has a pattern strictly between 0 and 100 percent
C12_Witness ==
    /\ \E e \in ValueEntries :
          LET pattern_data == analysis_results[e[1]].val[e[2]].val
              value_data == pattern_data.value_distribution[e[3]].val
          IN  /\ value_data.count = 1
              /\ pattern_data.total_samples = 2
              /\ value_data.percentage_of_pattern_total.num
                     < 100 * value_data.percentage_of_pattern_total.den
    /\ \E i \in 1..Len(overall_report.patterns) :
          /\ overall_report.patterns[i].percentage.num > 0
          /\ overall_report.patterns[i].percentage.num
                 <= 100 * overall_report.patterns[i].percentage.den

----------------------------------------------------------------------------
(* Which patterns have an entry in analysis_results (SpecAnalyzer) *)

\* the positions of the rows of the loaded extract that have the pattern
RowsOfPattern(pattern) ==
    {i \in 1..Len(data.rows) : data.rows[i]["Receptor_Pattern"] = StrVal(pattern)}

\* the patterns that have an entry for the c-th analyzed column
EntryPatterns(c) ==
    {analysis_results[c].val[p].key : p \in 1..Len(analysis_results[c].val)}

\* C14: for every analyzed column, a pattern of the fixed list has an entry
\* exactly when at least one row of the extract has that pattern; a pattern
\* with rows whose cells of the column are all missing still has an entry,
\* with non_empty_total 0 and an empty value_distribution; no pattern outside
\* the fixed list has an entry.
C14_EntryIffPatternHasRows ==
    \A c \in 1..Len(analysis_results) :
        LET col == analysis_results[c].key
            col_results == analysis_results[c].val
        IN  /\ EntryPatterns(c) \subseteq SeqToSet(receptor_patterns)
            /\ \A k \in 1..Len(receptor_patterns) :
                  (receptor_patterns[k] \in EntryPatterns(c))
                      <=> (RowsOfPattern(receptor_patterns[k]) # {})
            /\ \A k \in 1..Len(receptor_patterns) :
                  LET rows == RowsOfPattern(receptor_patterns[k])
                  IN  (rows # {} /\ \A i \in rows : pd_isna(data.rows[i][col]))
                      => \E p \in 1..Len(col_results) :
                            /\ col_results[p].key = receptor_patterns[k]
                            /\ col_results[p].val.non_empty_total = 0
                            /\ col_results[p].val.value_distribution = <<>>

\* a column analyzed over an extract in which one pattern has rows that all
\* miss the column, and another row has a pattern outside the fixed list
C14_Witness ==
    /\ \E c \in 1..Len(analysis_results) :
          \E p \in 1..Len(analysis_results[c].val) :
              /\ analysis_results[c].val[p].val.total_samples >= 1
              /\ analysis_results[c].val[p].val.non_empty_total = 0
    /\ \E i \in 1..Len(data.rows) :
          /\ ~pd_isna(data.rows[i]["Receptor_Pattern"])
          /\ \A k \in 1..Len(receptor_patterns) : i \notin RowsOfPattern(receptor_patterns[k])

----------------------------------------------------------------------------
(* The fields of an extract row (SpecExtractor) *)

\* C13: for every extract row and every requested user column, the field is
\* the placeholder exactly when the source value is null, empty or 'NA', and
\* the string form of the source value otherwise; the user-column fields
\* follow the five fixed fields and never replace them.
C13_UserFieldsFollowFixedFields ==
    (extracted_data.loaded /\ Len(extracted_data.rows) >= 1) =>
        /\ Len(extracted_data.columns) >= Len(FixedFields)
        /\ SubSeq(extracted_data.columns, 1, Len(FixedFields)) = FixedFields
        /\ \A j \in 1..Len(extracted_data.rows) :
              LET row == extracted_data.rows[j]
                  raw == filtered_clinical.rows[j]
              IN  /\ \A col \in SeqToSet(user_columns) :
                        row[col] =
                            IF pd_isna(raw[col]) \/ is_blank_or_NA(raw[col])
                            THEN StrVal(args.placeholder)
                            ELSE StrVal(py_str(raw[col]))
                  /\ row["SampleID"] = filtered_clinical.index[j]
                  /\ row["ER_Status"] =
                         StrVal(standardize_receptor_status(raw[ER_COL]))
                  /\ row["PR_Status"] =
                         StrVal(standardize_receptor_status(raw[PR_COL]))
                  /\ row["HER2_Status"] =
                         StrVal(standardize_receptor_status(raw[HER2_COL]))
                  /\ row["Receptor_Pattern"] =
                         StrVal(create_receptor_pattern(raw[ER_COL], raw[PR_COL],
                                                        raw[HER2_COL]))

----------------------------------------------------------------------------
(* 'Unknown' in the extract (SpecExtractor) *)

RECURSIVE SplitTokens(_, _, _)
\* t.split('/'): current is the token being read, done the tokens before it
SplitTokens(t, current, done) ==
    IF t = <<>> THEN Append(done, current)
    ELSE IF Head(t) = "/" THEN SplitTokens(Tail(t), <<>>, Append(done, current))
    ELSE SplitTokens(Tail(t), Append(current, Head(t)), done)

\* C16: no row of the extract has 'Unknown' as its ER_Status, PR_Status or
\* HER2_Status, and no Receptor_Pattern of the extract has 'Unknown' as one of
\* its tokens.
C16_NoUnknownInExtract ==
    extracted_data.loaded =>
        \A j \in 1..Len(extracted_data.rows) :
            LET row == extracted_data.rows[j]
            IN  /\ row["ER_Status"] # StrVal(UNKNOWN)
                /\ row["PR_Status"] # StrVal(UNKNOWN)
                /\ row["HER2_Status"] # StrVal(UNKNOWN)
                /\ UNKNOWN \notin
                       SeqToSet(SplitTokens(row["Receptor_Pattern"].s, <<>>, <<>>))

----------------------------------------------------------------------------
(* The placeholder seen by the analyzer (SpecPipeline) *)

\* the extracted samples whose value of the column is missing in the
\* clinical table
MissingSamples(col) ==
    {j \in 1..Len(filtered_clinical.rows) :
        \/ pd_isna(filtered_clinical.rows[j][col])
        \/ is_blank_or_NA(filtered_clinical.rows[j][col])}

\* the positions in analysis_results of the columns the extractor added
AnalyzedUserColumns ==
    {c \in 1..Len(analysis_results) :
        analysis_results[c].key \in SeqToSet(user_columns)}

\* for every analyzed user column and pattern present, nothing is missing
AllCountedNonMissing ==
    \A c \in AnalyzedUserColumns :
        \A p \in 1..Len(analysis_results[c].val) :
            analysis_results[c].val[p].val.non_empty_total
                = analysis_results[c].val[p].val.total_samples

\* the placeholder is an observed value of every pattern present that has a
\* sample whose value was missing in the clinical table
PlaceholderObserved ==
    \A c \in AnalyzedUserColumns :
        \A j \in MissingSamples(analysis_results[c].key) :
            \A p \in 1..Len(analysis_results[c].val) :
                (data.rows[j]["Receptor_Pattern"]
                     = StrVal(analysis_results[c].val[p].key))
                => odict_has(analysis_results[c].val[p].val.value_distribution,
                             args.placeholder)

Spec == SpecExtractor

====
